---- MODULE Spec2Model ----
(***************************************************************************)
(* A model of the CHIP-8 interpreter core of rs-chip-8:                    *)
(*   - the instruction decoder, <OpCode as TryFrom<u16>>::try_from         *)
(*     (src/src/interp/opcode.rs), as the operator try_from;               *)
(*   - the execution engine, VM::new and VM::execute with its 35 handlers  *)
(*     (src/src/interp/vm.rs), as operators from a VM value to the VM      *)
(*     value and the result the handler leaves behind.                     *)
(*                                                                         *)
(* A handler's result is "Ok" (it returned Ok(())) or "Panic" (the thread  *)
(* panicked: todo!(), an index out of bounds, an arithmetic overflow in a  *)
(* build with overflow checks).  No handler of vm.rs returns an Err.       *)
(* A panic is modelled with the VM as the handler left it at the panic,    *)
(* and nothing is executed after it.                                       *)
(***************************************************************************)
EXTENDS Integers, Sequences, FiniteSets, TLC

VARIABLES
    vm,               \* the VM struct: memory, registers, i, dt, st, pc, sp, stack, pheriphal
    outcome,          \* what the last call of execute did: "None", "Ok", "Err", "Panic"
    last,             \* the OpCode the last call of execute was given
    before,           \* the VM as it was when the last call of execute began
    origin,           \* the VM as it was before the first call of execute
    ncalls,           \* how many Calls were executed, if nothing else was; else -1
    steps,            \* how many instructions were executed (bounded in Spec)
    overflow_checks,  \* the build profile: TRUE panics on integer overflow (debug), FALSE wraps
    word,             \* the 16-bit word handed to the decoder
    decoded,          \* what the decoder made of it
    frames,           \* the pc each Call not yet returned from was executed at, oldest first
    twin,             \* a second VM created by VM::new, and what its last call of execute did
    random_device     \* the bytes random::default(42) yields, in order, where a run fixes them

vars == <<vm, outcome, last, before, origin, ncalls, steps, overflow_checks, word, decoded,
          frames, twin, random_device>>

----------------------------------------------------------------------------
(* Program constants *)

MEMORY_BYTES == 4096
REGISTER_COUNT == 16
STACK_LENGTH == 16
U8_MAX == 255
U16_MAX == 65535

(* Bounds of the model *)

\* The number of instructions Spec executes
MaxSteps == 3

(* The operands the instructions are executed with *)

Regs == {0, 15}
Bytes == {1, 255}
Addrs == {512, 4095}
Nibbles == {1}
RandomBytes == {0, 170, 255}    \* bytes the random device may return
StackTargets == {512}           \* the subroutine SpecStack calls

\* The words handed to the decoder: every u16
Words == 0..U16_MAX

----------------------------------------------------------------------------
(* Integer helpers: Rust's shifts, masks and casts on unsigned integers *)

Pow2(n) == 2 ^ n

\* value >> n
Shr(value, n) == value \div Pow2(n)

RECURSIVE BitAnd(_, _)
\* a & b
BitAnd(a, b) ==
    IF a = 0 \/ b = 0 THEN 0
    ELSE (IF a % 2 = 1 /\ b % 2 = 1 THEN 1 ELSE 0) + 2 * BitAnd(a \div 2, b \div 2)

RECURSIVE BitOr(_, _)
\* a | b
BitOr(a, b) ==
    IF a = 0 THEN b
    ELSE IF b = 0 THEN a
    ELSE (IF a % 2 = 1 \/ b % 2 = 1 THEN 1 ELSE 0) + 2 * BitOr(a \div 2, b \div 2)

RECURSIVE BitXor(_, _)
\* a ^ b
BitXor(a, b) ==
    IF a = 0 THEN b
    ELSE IF b = 0 THEN a
    ELSE (IF a % 2 # b % 2 THEN 1 ELSE 0) + 2 * BitXor(a \div 2, b \div 2)

\* v as u8
AsU8(v) == v % 256

----------------------------------------------------------------------------
(* OpCode: the 35 variants with their operands *)

System(nnn) == [op |-> "System", nnn |-> nnn]
ClearScreen == [op |-> "ClearScreen"]
Return == [op |-> "Return"]
Jump(nnn) == [op |-> "Jump", nnn |-> nnn]
Call(nnn) == [op |-> "Call", nnn |-> nnn]
SkipEqual(x, kk) == [op |-> "SkipEqual", x |-> x, kk |-> kk]
SkipNotEqual(x, kk) == [op |-> "SkipNotEqual", x |-> x, kk |-> kk]
SkipEqualRegister(x, y) == [op |-> "SkipEqualRegister", x |-> x, y |-> y]
Load(x, kk) == [op |-> "Load", x |-> x, kk |-> kk]
Add(x, kk) == [op |-> "Add", x |-> x, kk |-> kk]
LoadRegister(x, y) == [op |-> "LoadRegister", x |-> x, y |-> y]
OrRegister(x, y) == [op |-> "OrRegister", x |-> x, y |-> y]
AndRegister(x, y) == [op |-> "AndRegister", x |-> x, y |-> y]
XorRegister(x, y) == [op |-> "XorRegister", x |-> x, y |-> y]
AddRegister(x, y) == [op |-> "AddRegister", x |-> x, y |-> y]
SubRegister(x, y) == [op |-> "SubRegister", x |-> x, y |-> y]
ShrRegister(x, y) == [op |-> "ShrRegister", x |-> x, y |-> y]
SubNotBorrowRegister(x, y) == [op |-> "SubNotBorrowRegister", x |-> x, y |-> y]
ShlRegister(x, y) == [op |-> "ShlRegister", x |-> x, y |-> y]
SkipNotEqualRegister(x, y) == [op |-> "SkipNotEqualRegister", x |-> x, y |-> y]
Set(nnn) == [op |-> "Set", nnn |-> nnn]
JumpV0(nnn) == [op |-> "JumpV0", nnn |-> nnn]
Random(x, kk) == [op |-> "Random", x |-> x, kk |-> kk]
Draw(x, y, nibble) == [op |-> "Draw", x |-> x, y |-> y, nibble |-> nibble]
SkipKey(x) == [op |-> "SkipKey", x |-> x]
SkipNotKey(x) == [op |-> "SkipNotKey", x |-> x]
LoadDelayTimer(x) == [op |-> "LoadDelayTimer", x |-> x]
LoadKey(x) == [op |-> "LoadKey", x |-> x]
SetDelayTimer(x) == [op |-> "SetDelayTimer", x |-> x]
SetSoundTimer(x) == [op |-> "SetSoundTimer", x |-> x]
AddI(x) == [op |-> "AddI", x |-> x]
LoadSprite(x) == [op |-> "LoadSprite", x |-> x]
LoadBCD(x) == [op |-> "LoadBCD", x |-> x]
SaveRegisters(x) == [op |-> "SaveRegisters", x |-> x]
LoadRegisters(x) == [op |-> "LoadRegisters", x |-> x]

\* The names of the variants of the enum OpCode
OpCode ==
    {"System", "ClearScreen", "Return", "Jump", "Call", "SkipEqual", "SkipNotEqual",
     "SkipEqualRegister", "Load", "Add", "LoadRegister", "OrRegister", "AndRegister",
     "XorRegister", "AddRegister", "SubRegister", "ShrRegister", "SubNotBorrowRegister",
     "ShlRegister", "SkipNotEqualRegister", "Set", "JumpV0", "Random", "Draw", "SkipKey",
     "SkipNotKey", "LoadDelayTimer", "LoadKey", "SetDelayTimer", "SetSoundTimer", "AddI",
     "LoadSprite", "LoadBCD", "SaveRegisters", "LoadRegisters"}

\* Result<OpCode, String>::Err
DecodeErr(msg) == [op |-> "Err", msg |-> msg]

----------------------------------------------------------------------------
(* The decoder: <OpCode as TryFrom<u16>>::try_from *)

first_of(value) == AsU8(Shr(value, 3 * 4))
second_of(value) == AsU8(Shr(BitAnd(value, 256), 2 * 4))
thrid_of(value) == AsU8(Shr(BitAnd(value, 16), 4))
fourth_of(value) == AsU8(BitAnd(value, 1))
nnn_of(value) == BitAnd(value, 273)
kk_of(value) == AsU8(BitAnd(value, 17))

\* first = 0x00
decode_0(value, nnn) ==
    IF value = 224 THEN ClearScreen
    ELSE IF value = 238 THEN Return
    ELSE System(nnn)

\* first = 0x05
decode_5(second, thrid, fourth) ==
    IF fourth # 0 THEN DecodeErr("fourth not zero")
    ELSE SkipEqualRegister(second, thrid)

\* first = 0x08
decode_8(second, thrid, fourth) ==
    CASE fourth = 0 -> LoadRegister(second, thrid)
      [] fourth = 1 -> OrRegister(second, thrid)
      [] fourth = 2 -> AndRegister(second, thrid)
      [] fourth = 3 -> XorRegister(second, thrid)
      [] fourth = 4 -> AddRegister(second, thrid)
      [] fourth = 5 -> SubRegister(second, thrid)
      [] fourth = 6 -> ShrRegister(second, thrid)
      [] fourth = 7 -> SubNotBorrowRegister(second, thrid)
      [] fourth = 14 -> ShlRegister(second, thrid)
      [] OTHER -> DecodeErr("0x8xx fail")

\* first = 0x09
decode_9(second, thrid, fourth) ==
    IF fourth # 0 THEN DecodeErr("fourth is not zero")
    ELSE SkipNotEqualRegister(second, thrid)

\* The decoder aborting on an unknown Ex?? word instead of returning the Err
decode_e_aborts(second, kk) ==
    CASE kk = 158 -> SkipKey(second)
      [] kk = 161 -> SkipNotKey(second)
      [] OTHER -> [op |-> "Panic"]

\* first = 0x0e
decode_e(second, kk) ==
    CASE kk = 158 -> SkipKey(second)
      [] kk = 161 -> SkipNotKey(second)
      [] OTHER -> DecodeErr("neither Ex9E nor ExA1")

\* first = 0x0f
decode_f(second, kk) ==
    CASE kk = 7 -> LoadDelayTimer(second)
      [] kk = 10 -> LoadKey(second)
      [] kk = 21 -> SetDelayTimer(second)
      [] kk = 24 -> SetSoundTimer(second)
      [] kk = 30 -> AddI(second)
      [] kk = 41 -> LoadSprite(second)
      [] kk = 51 -> LoadBCD(second)
      [] kk = 85 -> SaveRegisters(second)
      [] kk = 101 -> LoadRegisters(second)
      [] OTHER -> DecodeErr("0xfxx fail")

try_from(value) ==
    LET first == first_of(value)
        second == second_of(value)
        thrid == thrid_of(value)
        fourth == fourth_of(value)
        nnn == nnn_of(value)
        kk == kk_of(value)
    IN  CASE first = 0 -> decode_0(value, nnn)
          [] first = 1 -> Jump(nnn)
          [] first = 2 -> Call(nnn)
          [] first = 3 -> SkipEqual(second, kk)
          [] first = 4 -> SkipNotEqual(second, kk)
          [] first = 5 -> decode_5(second, thrid, fourth)
          [] first = 6 -> Load(second, kk)
          [] first = 7 -> Add(second, kk)
          [] first = 8 -> decode_8(second, thrid, fourth)
          [] first = 9 -> decode_9(second, thrid, fourth)
          [] first = 10 -> Set(nnn)
          [] first = 11 -> JumpV0(nnn)
          [] first = 12 -> Random(second, kk)
          [] first = 13 -> Draw(second, thrid, fourth)
          [] first = 14 -> decode_e(second, kk)
          [] first = 15 -> decode_f(second, kk)
          [] OTHER -> DecodeErr("first value fail")

----------------------------------------------------------------------------
(* memory: [u8; MEMORY_BYTES].  The array is kept as its non-zero cells: a   *)
(* function from the addresses that hold a non-zero byte to that byte.  Two  *)
(* arrays are equal exactly when these functions are.                        *)

\* [0; MEMORY_BYTES]
ZeroMemory == [a \in {} |-> 0]

\* memory[a], for a < MEMORY_BYTES
MemGet(m, a) == IF a \in DOMAIN m THEN m[a] ELSE 0

\* memory[a] = b, for a < MEMORY_BYTES
MemSet(m, a, b) ==
    IF b = 0 THEN [c \in (DOMAIN m) \ {a} |-> m[c]]
    ELSE [c \in (DOMAIN m) \cup {a} |-> IF c = a THEN b ELSE m[c]]

----------------------------------------------------------------------------
(* The VM: VM::new *)

new ==
    [memory |-> ZeroMemory,
     registers |-> [r \in 0..(REGISTER_COUNT - 1) |-> 0],
     i |-> 0,
     dt |-> 0,
     st |-> 0,
     pc |-> 0,
     sp |-> 0,
     stack |-> [s \in 0..(STACK_LENGTH - 1) |-> 0],
     pheriphal |-> 0]   \* the random device (seed 42), as the number of bytes read from it

\* What a handler leaves: the VM and Ok(()), or the VM at the point of the panic
Ok(v) == [vm |-> v, result |-> "Ok"]
Panic(v) == [vm |-> v, result |-> "Panic"]

\* self.registers[x.0 as usize] is in bounds
InRegs(x) == x \in 0..(REGISTER_COUNT - 1)

----------------------------------------------------------------------------
(* The handlers, one per OpCode *)

\* system jumping to the machine code routine at nnn, as the original
\* interpreter did
system_jumps(v, nnn) == Ok([v EXCEPT !.pc = nnn])

system(v, nnn) == Ok(v)

clearscreen(v) == Panic(v)   \* todo!()

execute_return(v) ==
    IF v.sp >= STACK_LENGTH THEN Panic(v)                \* self.stack[self.sp as usize]
    ELSE LET v1 == [v EXCEPT !.pc = v.stack[v.sp]]
         IN  IF v.sp = 0
             THEN IF overflow_checks THEN Panic(v1)      \* self.sp -= 1 on 0
                  ELSE Ok([v1 EXCEPT !.sp = U8_MAX])
             ELSE Ok([v1 EXCEPT !.sp = v.sp - 1])

jump(v, nnn) == Ok([v EXCEPT !.pc = nnn])

execute_call(v, nnn) ==
    IF v.sp = U8_MAX /\ overflow_checks THEN Panic(v)    \* self.sp += 1 on 255
    ELSE LET v1 == [v EXCEPT !.sp = AsU8(v.sp + 1)]
         IN  IF v1.sp >= STACK_LENGTH THEN Panic(v1)     \* self.stack[self.sp as usize] = ...
             ELSE Ok([v1 EXCEPT !.stack[v1.sp] = v.pc, !.pc = nnn])

\* The skip adding 4 to pc, as if the fetch had not advanced it
skip_by_4(v) ==
    IF v.pc + 4 > U16_MAX
    THEN IF overflow_checks THEN Panic(v) ELSE Ok([v EXCEPT !.pc = (v.pc + 4) % (U16_MAX + 1)])
    ELSE Ok([v EXCEPT !.pc = v.pc + 4])

\* self.pc += 2
skip(v) ==
    IF v.pc + 2 > U16_MAX
    THEN IF overflow_checks THEN Panic(v) ELSE Ok([v EXCEPT !.pc = (v.pc + 2) % (U16_MAX + 1)])
    ELSE Ok([v EXCEPT !.pc = v.pc + 2])

skip_equal(v, x, kk) ==
    IF ~InRegs(x) THEN Panic(v)
    ELSE IF v.registers[x] = kk THEN skip(v) ELSE Ok(v)

skip_not_equal(v, x, kk) ==
    IF ~InRegs(x) THEN Panic(v)
    ELSE IF v.registers[x] # kk THEN skip(v) ELSE Ok(v)

skip_equal_register(v, x, y) ==
    IF ~InRegs(x) \/ ~InRegs(y) THEN Panic(v)
    ELSE IF v.registers[x] = v.registers[y] THEN skip(v) ELSE Ok(v)

load(v, x, kk) ==
    IF ~InRegs(x) THEN Panic(v)
    ELSE Ok([v EXCEPT !.registers[x] = kk])

add(v, x, kk) ==
    IF ~InRegs(x) THEN Panic(v)
    ELSE IF v.registers[x] + kk > U8_MAX /\ overflow_checks THEN Panic(v)
    ELSE Ok([v EXCEPT !.registers[x] = AsU8(v.registers[x] + kk)])

load_register(v, x, y) ==
    IF ~InRegs(x) \/ ~InRegs(y) THEN Panic(v)
    ELSE Ok([v EXCEPT !.registers[x] = v.registers[y]])

or_register(v, x, y) ==
    IF ~InRegs(x) \/ ~InRegs(y) THEN Panic(v)
    ELSE Ok([v EXCEPT !.registers[x] = BitOr(v.registers[x], v.registers[y])])

and_register(v, x, y) ==
    IF ~InRegs(x) \/ ~InRegs(y) THEN Panic(v)
    ELSE Ok([v EXCEPT !.registers[x] = BitAnd(v.registers[x], v.registers[y])])

xor_register(v, x, y) ==
    IF ~InRegs(x) \/ ~InRegs(y) THEN Panic(v)
    ELSE Ok([v EXCEPT !.registers[x] = BitXor(v.registers[x], v.registers[y])])

\* add_register with the carry taken at r >= u8::MAX instead of r > u8::MAX
add_register_carry_at_255(v, x, y) ==
    IF ~InRegs(x) \/ ~InRegs(y) THEN Panic(v)
    ELSE LET r == v.registers[x] + v.registers[y]
             v1 == [v EXCEPT !.registers[15] = IF r >= U8_MAX THEN 1 ELSE 0]
         IN  Ok([v1 EXCEPT !.registers[x] = AsU8(r)])

add_register(v, x, y) ==
    IF ~InRegs(x) \/ ~InRegs(y) THEN Panic(v)
    ELSE LET r == v.registers[x] + v.registers[y]
             v1 == [v EXCEPT !.registers[15] = IF r > U8_MAX THEN 1 ELSE 0]
         IN  Ok([v1 EXCEPT !.registers[x] = AsU8(r)])

sub_register(v, x, y) ==
    IF ~InRegs(x) \/ ~InRegs(y) THEN Panic(v)
    ELSE LET v1 == [v EXCEPT !.registers[15] =
                        IF v.registers[x] > v.registers[y] THEN 1 ELSE 0]
             d == v1.registers[x] - v1.registers[y]      \* read after the flag is written
         IN  IF d < 0 /\ overflow_checks THEN Panic(v1)
             ELSE Ok([v1 EXCEPT !.registers[x] = d % (U8_MAX + 1)])

\* shr_register shifting Vy into Vx, as the original interpreter did
shr_register_from_vy(v, x, y) ==
    IF ~InRegs(x) \/ ~InRegs(y) THEN Panic(v)
    ELSE LET v1 == [v EXCEPT !.registers[15] =
                        IF BitAnd(v.registers[y], 1) = 1 THEN 1 ELSE 0]
         IN  Ok([v1 EXCEPT !.registers[x] = Shr(v1.registers[y], 1)])

shr_register(v, x, y) ==
    IF ~InRegs(x) THEN Panic(v)
    ELSE LET v1 == [v EXCEPT !.registers[15] =
                        IF BitAnd(v.registers[x], 1) = 1 THEN 1 ELSE 0]
         IN  Ok([v1 EXCEPT !.registers[x] = Shr(v1.registers[x], 1)])

sub_not_borrow_register(v, x, y) ==
    IF ~InRegs(x) \/ ~InRegs(y) THEN Panic(v)
    ELSE LET v1 == [v EXCEPT !.registers[15] =
                        IF v.registers[y] > v.registers[x] THEN 1 ELSE 0]
             d == v1.registers[y] - v1.registers[x]      \* read after the flag is written
         IN  IF d < 0 /\ overflow_checks THEN Panic(v1)
             ELSE Ok([v1 EXCEPT !.registers[x] = d % (U8_MAX + 1)])

shl_register(v, x, y) ==
    IF ~InRegs(x) THEN Panic(v)
    ELSE LET v1 == [v EXCEPT !.registers[15] =
                        IF BitAnd(v.registers[x], 128) = 1 THEN 1 ELSE 0]
         IN  Ok([v1 EXCEPT !.registers[x] = AsU8(v1.registers[x] * 2)])

skip_not_equal_register(v, x, y) ==
    IF ~InRegs(x) \/ ~InRegs(y) THEN Panic(v)
    ELSE IF v.registers[x] # v.registers[y] THEN skip(v) ELSE Ok(v)

set(v, nnn) == Ok([v EXCEPT !.i = nnn])

jump_v0(v, nnn) ==
    LET r == v.registers[0] + nnn
    IN  IF r > U16_MAX
        THEN IF overflow_checks THEN Panic(v) ELSE Ok([v EXCEPT !.pc = r % (U16_MAX + 1)])
        ELSE Ok([v EXCEPT !.pc = r])

\* execute_random storing the byte it read without the mask
execute_random_unmasked(v, x, kk, r) ==
    LET v1 == [v EXCEPT !.pheriphal = v.pheriphal + 1]
    IN  IF ~InRegs(x) THEN Panic(v1)
        ELSE Ok([v1 EXCEPT !.registers[x] = r])

\* r is the byte self.pheriphal.random_device.read::<u8>() returns
execute_random(v, x, kk, r) ==
    LET v1 == [v EXCEPT !.pheriphal = v.pheriphal + 1]
    IN  IF ~InRegs(x) THEN Panic(v1)
        ELSE Ok([v1 EXCEPT !.registers[x] = BitAnd(r, kk)])

draw(v, x, y, nibble) == Panic(v)   \* todo!()

key(v, x) == Panic(v)   \* todo!()

skip_not_key(v, x) == Panic(v)   \* todo!()

load_dt(v, x) ==
    IF ~InRegs(x) THEN Panic(v)
    ELSE Ok([v EXCEPT !.registers[x] = v.dt])

load_key(v, x) == Panic(v)   \* todo!()

set_dt(v, x) ==
    IF ~InRegs(x) THEN Panic(v)
    ELSE Ok([v EXCEPT !.dt = v.registers[x]])

\* set_st writing the delay timer, as a copy of set_dt left unedited would
set_st_writes_dt(v, x) ==
    IF ~InRegs(x) THEN Panic(v)
    ELSE Ok([v EXCEPT !.dt = v.registers[x]])

set_st(v, x) ==
    IF ~InRegs(x) THEN Panic(v)
    ELSE Ok([v EXCEPT !.st = v.registers[x]])

add_i(v, x) ==
    IF ~InRegs(x) THEN Panic(v)
    ELSE LET r == v.i + v.registers[x]
         IN  IF r > U16_MAX
             THEN IF overflow_checks THEN Panic(v) ELSE Ok([v EXCEPT !.i = r % (U16_MAX + 1)])
             ELSE Ok([v EXCEPT !.i = r])

load_sprite(v, x) == Panic(v)   \* todo!()

load_bcd(v, x) == Panic(v)   \* todo!()

RECURSIVE save_registers_from_exclusive(_, _, _)
\* The loop of save_registers over 0..x.0 instead of 0..=x.0
save_registers_from_exclusive(v, x, k) ==
    IF k >= x THEN Ok(v)
    ELSE IF ~InRegs(k) \/ v.i + k >= MEMORY_BYTES THEN Panic(v)
    ELSE save_registers_from_exclusive(
             [v EXCEPT !.memory = MemSet(v.memory, v.i + k, v.registers[k])], x, k + 1)

RECURSIVE save_registers_from(_, _, _)
\* The loop of save_registers from offset k on: for (offset, index) in (0..=x.0).enumerate()
save_registers_from(v, x, k) ==
    IF k > x THEN Ok(v)
    ELSE IF ~InRegs(k) \/ v.i + k >= MEMORY_BYTES THEN Panic(v)
    ELSE save_registers_from([v EXCEPT !.memory = MemSet(v.memory, v.i + k, v.registers[k])], x, k + 1)

save_registers(v, x) == save_registers_from(v, x, 0)

RECURSIVE load_registers_from_exclusive(_, _, _)
\* The loop of load_registers over 0..x.0 instead of 0..=x.0
load_registers_from_exclusive(v, x, k) ==
    IF k >= x THEN Ok(v)
    ELSE IF v.i + k >= MEMORY_BYTES \/ ~InRegs(k) THEN Panic(v)
    ELSE load_registers_from_exclusive(
             [v EXCEPT !.registers[k] = MemGet(v.memory, v.i + k)], x, k + 1)

RECURSIVE load_registers_from(_, _, _)
\* The loop of load_registers from offset k on
load_registers_from(v, x, k) ==
    IF k > x THEN Ok(v)
    ELSE IF v.i + k >= MEMORY_BYTES \/ ~InRegs(k) THEN Panic(v)
    ELSE load_registers_from([v EXCEPT !.registers[k] = MemGet(v.memory, v.i + k)], x, k + 1)

load_registers(v, x) == load_registers_from(v, x, 0)

\* VM::execute: the match on the OpCode. r is the byte the random device would give.
execute(v, o, r) ==
    CASE o.op = "System" -> system(v, o.nnn)
      [] o.op = "ClearScreen" -> clearscreen(v)
      [] o.op = "Return" -> execute_return(v)
      [] o.op = "Jump" -> jump(v, o.nnn)
      [] o.op = "Call" -> execute_call(v, o.nnn)
      [] o.op = "SkipEqual" -> skip_equal(v, o.x, o.kk)
      [] o.op = "SkipNotEqual" -> skip_not_equal(v, o.x, o.kk)
      [] o.op = "SkipEqualRegister" -> skip_equal_register(v, o.x, o.y)
      [] o.op = "Load" -> load(v, o.x, o.kk)
      [] o.op = "Add" -> add(v, o.x, o.kk)
      [] o.op = "LoadRegister" -> load_register(v, o.x, o.y)
      [] o.op = "OrRegister" -> or_register(v, o.x, o.y)
      [] o.op = "AndRegister" -> and_register(v, o.x, o.y)
      [] o.op = "XorRegister" -> xor_register(v, o.x, o.y)
      [] o.op = "AddRegister" -> add_register(v, o.x, o.y)
      [] o.op = "SubRegister" -> sub_register(v, o.x, o.y)
      [] o.op = "ShrRegister" -> shr_register(v, o.x, o.y)
      [] o.op = "SubNotBorrowRegister" -> sub_not_borrow_register(v, o.x, o.y)
      [] o.op = "ShlRegister" -> shl_register(v, o.x, o.y)
      [] o.op = "SkipNotEqualRegister" -> skip_not_equal_register(v, o.x, o.y)
      [] o.op = "Set" -> set(v, o.nnn)
      [] o.op = "JumpV0" -> jump_v0(v, o.nnn)
      [] o.op = "Random" -> execute_random(v, o.x, o.kk, r)
      [] o.op = "Draw" -> draw(v, o.x, o.y, o.nibble)
      [] o.op = "SkipKey" -> key(v, o.x)
      [] o.op = "SkipNotKey" -> skip_not_key(v, o.x)
      [] o.op = "LoadDelayTimer" -> load_dt(v, o.x)
      [] o.op = "LoadKey" -> load_key(v, o.x)
      [] o.op = "SetDelayTimer" -> set_dt(v, o.x)
      [] o.op = "SetSoundTimer" -> set_st(v, o.x)
      [] o.op = "AddI" -> add_i(v, o.x)
      [] o.op = "LoadSprite" -> load_sprite(v, o.x)
      [] o.op = "LoadBCD" -> load_bcd(v, o.x)
      [] o.op = "SaveRegisters" -> save_registers(v, o.x)
      [] o.op = "LoadRegisters" -> load_registers(v, o.x)

----------------------------------------------------------------------------
(* The state machine *)

\* A VM is created; nothing has been executed or decoded yet
Init ==
    /\ vm = new
    /\ outcome = "None"
    /\ last = [op |-> "None"]
    /\ before = new
    /\ origin = new
    /\ ncalls = 0
    /\ steps = 0
    /\ overflow_checks \in BOOLEAN
    /\ word = 0
    /\ decoded = [op |-> "None"]
    /\ frames = <<>>
    /\ twin = [vm |-> new, result |-> "None"]
    /\ random_device = <<>>

\* One call of vm.execute(o); nothing runs after a panic
Exec(o, r) ==
    /\ outcome # "Panic"
    /\ LET res == execute(vm, o, r)
       IN  /\ vm' = res.vm
           /\ outcome' = res.result
    /\ last' = o
    /\ before' = vm
    /\ ncalls' = IF o.op = "Call" /\ ncalls >= 0 THEN ncalls + 1 ELSE -1
    /\ frames' = CASE o.op = "Call" /\ execute(vm, o, r).result = "Ok" -> Append(frames, vm.pc)
                   [] o.op = "Return" /\ frames # <<>> -> SubSeq(frames, 1, Len(frames) - 1)
                   [] OTHER -> frames
    /\ UNCHANGED <<origin, overflow_checks, word, decoded, random_device>>

\* Spec executes at most MaxSteps instructions
Budget == steps < MaxSteps

\* One instruction of Spec
Step(o, r) ==
    /\ steps' = steps + 1
    /\ Exec(o, r)
    /\ UNCHANGED twin

ExecuteSystem == Budget /\ \E nnn \in Addrs : Step(System(nnn), 0)
ExecuteClearScreen == Budget /\ Step(ClearScreen, 0)
ExecuteReturn == Budget /\ Step(Return, 0)
ExecuteJump == Budget /\ \E nnn \in Addrs : Step(Jump(nnn), 0)
ExecuteCall == Budget /\ \E nnn \in Addrs : Step(Call(nnn), 0)
ExecuteSkipEqual == Budget /\ \E x \in Regs, kk \in Bytes : Step(SkipEqual(x, kk), 0)
ExecuteSkipNotEqual == Budget /\ \E x \in Regs, kk \in Bytes : Step(SkipNotEqual(x, kk), 0)
ExecuteSkipEqualRegister == Budget /\ \E x \in Regs, y \in Regs : Step(SkipEqualRegister(x, y), 0)
ExecuteLoad == Budget /\ \E x \in Regs, kk \in Bytes : Step(Load(x, kk), 0)
ExecuteAdd == Budget /\ \E x \in Regs, kk \in Bytes : Step(Add(x, kk), 0)
ExecuteLoadRegister == Budget /\ \E x \in Regs, y \in Regs : Step(LoadRegister(x, y), 0)
ExecuteOrRegister == Budget /\ \E x \in Regs, y \in Regs : Step(OrRegister(x, y), 0)
ExecuteAndRegister == Budget /\ \E x \in Regs, y \in Regs : Step(AndRegister(x, y), 0)
ExecuteXorRegister == Budget /\ \E x \in Regs, y \in Regs : Step(XorRegister(x, y), 0)
ExecuteAddRegister == Budget /\ \E x \in Regs, y \in Regs : Step(AddRegister(x, y), 0)
ExecuteSubRegister == Budget /\ \E x \in Regs, y \in Regs : Step(SubRegister(x, y), 0)
ExecuteShrRegister == Budget /\ \E x \in Regs, y \in Regs : Step(ShrRegister(x, y), 0)
ExecuteSubNotBorrowRegister == Budget /\ \E x \in Regs, y \in Regs : Step(SubNotBorrowRegister(x, y), 0)
ExecuteShlRegister == Budget /\ \E x \in Regs, y \in Regs : Step(ShlRegister(x, y), 0)
ExecuteSkipNotEqualRegister == Budget /\ \E x \in Regs, y \in Regs : Step(SkipNotEqualRegister(x, y), 0)
ExecuteSet == Budget /\ \E nnn \in Addrs : Step(Set(nnn), 0)
ExecuteJumpV0 == Budget /\ \E nnn \in Addrs : Step(JumpV0(nnn), 0)
ExecuteRandom == Budget /\ \E x \in Regs, kk \in Bytes, r \in RandomBytes : Step(Random(x, kk), r)
ExecuteDraw == Budget /\ \E x \in Regs, y \in Regs, n \in Nibbles : Step(Draw(x, y, n), 0)
ExecuteSkipKey == Budget /\ \E x \in Regs : Step(SkipKey(x), 0)
ExecuteSkipNotKey == Budget /\ \E x \in Regs : Step(SkipNotKey(x), 0)
ExecuteLoadDelayTimer == Budget /\ \E x \in Regs : Step(LoadDelayTimer(x), 0)
ExecuteLoadKey == Budget /\ \E x \in Regs : Step(LoadKey(x), 0)
ExecuteSetDelayTimer == Budget /\ \E x \in Regs : Step(SetDelayTimer(x), 0)
ExecuteSetSoundTimer == Budget /\ \E x \in Regs : Step(SetSoundTimer(x), 0)
ExecuteAddI == Budget /\ \E x \in Regs : Step(AddI(x), 0)
ExecuteLoadSprite == Budget /\ \E x \in Regs : Step(LoadSprite(x), 0)
ExecuteLoadBCD == Budget /\ \E x \in Regs : Step(LoadBCD(x), 0)
ExecuteSaveRegisters == Budget /\ \E x \in Regs : Step(SaveRegisters(x), 0)
ExecuteLoadRegisters == Budget /\ \E x \in Regs : Step(LoadRegisters(x), 0)

Next ==
    \/ ExecuteSystem
    \/ ExecuteClearScreen
    \/ ExecuteReturn
    \/ ExecuteJump
    \/ ExecuteCall
    \/ ExecuteSkipEqual
    \/ ExecuteSkipNotEqual
    \/ ExecuteSkipEqualRegister
    \/ ExecuteLoad
    \/ ExecuteAdd
    \/ ExecuteLoadRegister
    \/ ExecuteOrRegister
    \/ ExecuteAndRegister
    \/ ExecuteXorRegister
    \/ ExecuteAddRegister
    \/ ExecuteSubRegister
    \/ ExecuteShrRegister
    \/ ExecuteSubNotBorrowRegister
    \/ ExecuteShlRegister
    \/ ExecuteSkipNotEqualRegister
    \/ ExecuteSet
    \/ ExecuteJumpV0
    \/ ExecuteRandom
    \/ ExecuteDraw
    \/ ExecuteSkipKey
    \/ ExecuteSkipNotKey
    \/ ExecuteLoadDelayTimer
    \/ ExecuteLoadKey
    \/ ExecuteSetDelayTimer
    \/ ExecuteSetSoundTimer
    \/ ExecuteAddI
    \/ ExecuteLoadSprite
    \/ ExecuteLoadBCD
    \/ ExecuteSaveRegisters
    \/ ExecuteLoadRegisters

\* Any MaxSteps instructions on a new VM
Spec == Init /\ [][Next]_vars

(* Subroutine nesting: any number of Calls and Returns on a new VM *)

NestCall == \E nnn \in StackTargets : UNCHANGED <<steps, twin>> /\ Exec(Call(nnn), 0)
NestReturn == UNCHANGED <<steps, twin>> /\ Exec(Return, 0)

NextStack == NestCall \/ NestReturn

SpecStack == Init /\ [][NextStack]_vars

(* Nested subroutines: Calls one inside the other, then their Returns *)

\* The subroutine called at depth d: a different address at each depth
LifoTarget(d) == 512 + 2 * d

LifoCall ==
    /\ last.op \in {"None", "Call"}
    /\ UNCHANGED <<steps, twin>>
    /\ Exec(Call(LifoTarget(Len(frames))), 0)

LifoReturn ==
    /\ frames # <<>>
    /\ UNCHANGED <<steps, twin>>
    /\ Exec(Return, 0)

NextLifo == LifoCall \/ LifoReturn

SpecLifo == Init /\ [][NextLifo]_vars

(* The decoder on its own: one word, decoded once *)

InitDecode ==
    /\ vm = new
    /\ outcome = "None"
    /\ last = [op |-> "None"]
    /\ before = new
    /\ origin = new
    /\ ncalls = 0
    /\ steps = 0
    /\ overflow_checks \in BOOLEAN
    /\ word \in Words
    /\ decoded = [op |-> "None"]
    /\ frames = <<>>
    /\ twin = [vm |-> new, result |-> "None"]
    /\ random_device = <<>>

Decode ==
    /\ decoded.op = "None"
    /\ decoded' = try_from(word)
    /\ UNCHANGED <<vm, outcome, last, before, origin, ncalls, steps, overflow_checks, word,
                   frames, twin, random_device>>

NextDecode == Decode

SpecDecode == InitDecode /\ [][NextDecode]_vars

(* Block transfers: on a VM whose registers, I and memory a program has set  *)
(* (Load, Set, SaveRegisters reach every such VM), SaveRegisters(x), then    *)
(* registers 0..=x set to zero, then LoadRegisters(x)                        *)

\* The register files the block transfers start from: V[k] = (k * m + c) mod 256
BlockRegisters ==
    {[k \in 0..(REGISTER_COUNT - 1) |-> AsU8(k * m + c)] : m \in {0, 17}, c \in {0, 3, 255}}

\* The values of I the block transfers start from
BlockI == {0, 512, 4080, 4081, 4095}

\* The memories the block transfers start from
BlockMemory ==
    {ZeroMemory, [a \in {0, 511, 512, 513, 528, 4079, 4080, 4095} |-> 170]}

InitBlock ==
    /\ vm \in {[new EXCEPT !.registers = rs, !.i = i0, !.memory = m0] :
                  rs \in BlockRegisters, i0 \in BlockI, m0 \in BlockMemory}
    /\ outcome = "None"
    /\ last = [op |-> "None"]
    /\ before = vm
    /\ origin = vm
    /\ ncalls = 0
    /\ steps = 0
    /\ overflow_checks \in BOOLEAN
    /\ word = 0
    /\ decoded = [op |-> "None"]
    /\ frames = <<>>
    /\ twin = [vm |-> new, result |-> "None"]
    /\ random_device = <<>>

RECURSIVE zero_registers_from(_, _, _)
\* execute(Load(V(k), Byte(0))) for each k from k to x - 1, in this order
zero_registers_from(v, x, k) ==
    IF k >= x THEN v ELSE zero_registers_from(load(v, k, 0).vm, x, k + 1)

BlockSave == steps = 0 /\ \E x \in 0..(REGISTER_COUNT - 1) : Step(SaveRegisters(x), 0)

\* Load(V(k), Byte(0)) for k = 0..=x, x the operand of the SaveRegisters before
BlockZero ==
    /\ steps = 1
    /\ last.op = "SaveRegisters"
    /\ outcome = "Ok"
    /\ LET x == last.x
           v == zero_registers_from(vm, x, 0)
       IN  /\ before' = v
           /\ vm' = load(v, x, 0).vm
           /\ outcome' = load(v, x, 0).result
           /\ last' = Load(x, 0)
    /\ steps' = 2
    /\ ncalls' = -1
    /\ UNCHANGED <<origin, overflow_checks, word, decoded, frames, twin, random_device>>

BlockLoad == steps = 2 /\ last.op = "Load" /\ Step(LoadRegisters(last.x), 0)

NextBlock == BlockSave \/ BlockZero \/ BlockLoad

SpecBlock == InitBlock /\ [][NextBlock]_vars

(* One instruction of the arithmetic and skip groups, on a VM whose V0, V1,  *)
(* VF and pc a program has set (Load and Jump reach every such VM)           *)

AluA == 0..U8_MAX                               \* V0
AluB == {0, 1, 2, 127, 128, 129, 254, 255}      \* V1
AluF == {0, 1, 255}                             \* VF
AluPc == {514, 65534}                           \* pc
AluX == {0, 1}                                  \* the operand x
AluY == {0, 1, 15}                              \* the operand y
AluBytes == {0, 1, 255}                         \* the operand kk

InitAlu ==
    /\ vm \in {[new EXCEPT !.registers[0] = a, !.registers[1] = b, !.registers[15] = f,
                           !.pc = p] :
                  a \in AluA, b \in AluB, f \in AluF, p \in AluPc}
    /\ outcome = "None"
    /\ last = [op |-> "None"]
    /\ before = vm
    /\ origin = vm
    /\ ncalls = 0
    /\ steps = 0
    /\ overflow_checks \in BOOLEAN
    /\ word = 0
    /\ decoded = [op |-> "None"]
    /\ frames = <<>>
    /\ twin = [vm |-> new, result |-> "None"]
    /\ random_device = <<>>

\* SpecAlu executes one instruction
First == steps = 0

AluAdd == First /\ \E x \in AluX, kk \in AluBytes : Step(Add(x, kk), 0)
AluAddRegister == First /\ \E x \in AluX, y \in AluY : Step(AddRegister(x, y), 0)
AluSubRegister == First /\ \E x \in AluX, y \in AluY : Step(SubRegister(x, y), 0)
AluShrRegister == First /\ \E x \in AluX, y \in AluY : Step(ShrRegister(x, y), 0)
AluSubNotBorrowRegister ==
    First /\ \E x \in AluX, y \in AluY : Step(SubNotBorrowRegister(x, y), 0)
AluShlRegister == First /\ \E x \in AluX, y \in AluY : Step(ShlRegister(x, y), 0)
AluSkipEqual == First /\ \E x \in AluX, kk \in AluBytes : Step(SkipEqual(x, kk), 0)
AluSkipNotEqual == First /\ \E x \in AluX, kk \in AluBytes : Step(SkipNotEqual(x, kk), 0)
AluSkipEqualRegister ==
    First /\ \E x \in AluX, y \in AluY : Step(SkipEqualRegister(x, y), 0)
AluSkipNotEqualRegister ==
    First /\ \E x \in AluX, y \in AluY : Step(SkipNotEqualRegister(x, y), 0)

NextAlu ==
    \/ AluAdd
    \/ AluAddRegister
    \/ AluSubRegister
    \/ AluShrRegister
    \/ AluSubNotBorrowRegister
    \/ AluShlRegister
    \/ AluSkipEqual
    \/ AluSkipNotEqual
    \/ AluSkipEqualRegister
    \/ AluSkipNotEqualRegister

SpecAlu == InitAlu /\ [][NextAlu]_vars

(* Two VMs: each made by VM::new, each given the same instructions. VM::new  *)
(* seeds every VM's generator with 42, so the n-th byte either VM reads is   *)
(* the n-th byte of the one sequence that seed yields.                       *)

\* The instructions the two VMs are given
TwinOps ==
    {Random(0, 255), Random(0, 15), Random(1, 170), Random(15, 1),
     Load(1, 255), AddRegister(0, 1), SkipEqual(0, 0), SaveRegisters(1)}

InitTwin ==
    /\ vm = new
    /\ outcome = "None"
    /\ last = [op |-> "None"]
    /\ before = new
    /\ origin = new
    /\ ncalls = 0
    /\ steps = 0
    /\ overflow_checks \in BOOLEAN
    /\ word = 0
    /\ decoded = [op |-> "None"]
    /\ frames = <<>>
    /\ twin = [vm |-> new, result |-> "None"]
    /\ random_device \in [1..MaxSteps -> RandomBytes]

\* The byte the next read of v's generator returns
read_u8(v) == random_device[v.pheriphal + 1]

\* Both VMs execute o
TwinExecute ==
    /\ Budget
    /\ \E o \in TwinOps :
           /\ steps' = steps + 1
           /\ Exec(o, read_u8(vm))
           /\ twin' = execute(twin.vm, o, read_u8(twin.vm))

NextTwin == TwinExecute

SpecTwin == InitTwin /\ [][NextTwin]_vars

----------------------------------------------------------------------------
(* The claims *)

\* The fields of a word as the instruction set defines them
TopNibble(w) == w \div 4096
FieldX(w) == (w \div 256) % 16
FieldY(w) == (w \div 16) % 16
FieldN(w) == w % 16
FieldNNN(w) == w % 4096
FieldKK(w) == w % 256

\* The instruction each recognized secondary discriminator selects
Known8 == (0..7) \cup {14}
KnownE == {158, 161}
KnownF == {7, 10, 21, 24, 30, 41, 51, 85, 101}

Variant8(n) ==
    CASE n = 0 -> "LoadRegister" [] n = 1 -> "OrRegister" [] n = 2 -> "AndRegister"
      [] n = 3 -> "XorRegister" [] n = 4 -> "AddRegister" [] n = 5 -> "SubRegister"
      [] n = 6 -> "ShrRegister" [] n = 7 -> "SubNotBorrowRegister" [] n = 14 -> "ShlRegister"

VariantE(kk) == CASE kk = 158 -> "SkipKey" [] kk = 161 -> "SkipNotKey"

VariantF(kk) ==
    CASE kk = 7 -> "LoadDelayTimer" [] kk = 10 -> "LoadKey" [] kk = 21 -> "SetDelayTimer"
      [] kk = 24 -> "SetSoundTimer" [] kk = 30 -> "AddI" [] kk = 41 -> "LoadSprite"
      [] kk = 51 -> "LoadBCD" [] kk = 85 -> "SaveRegisters" [] kk = 101 -> "LoadRegisters"

\* C1: on a new VM, each of 16 consecutive Calls returns success, and the 17th
\* returns a stack fault (an Err, the VM untouched) rather than panicking,
\* writing outside the stack or wrapping sp.
C1_SixteenCallsThenStackFault ==
    /\ (ncalls \in 1..16 => outcome = "Ok")
    /\ (ncalls = 17 => outcome = "Err" /\ vm = before)

\* C2: Return executed with an empty stack (sp at its initial value 0) returns
\* a stack fault and changes neither sp nor pc.
C2_ReturnOnEmptyStackFaults ==
    (last.op = "Return" /\ before.sp = new.sp) =>
        (outcome = "Err" /\ vm.sp = before.sp /\ vm.pc = before.pc)

\* C3: a Call executed while the stack holds fewer than 16 frames succeeds, and
\* a Return executed right after a Call leaves pc and sp as they were before
\* that Call.
C3_CallThenReturnRestores ==
    [][/\ (last'.op = "Call" /\ vm.sp < 16) => outcome' = "Ok"
       /\ (last.op = "Call" /\ before.sp < 16 /\ last'.op = "Return") =>
              (outcome' = "Ok" /\ vm'.pc = before.pc /\ vm'.sp = before.sp)]_vars

\* C4: whatever instruction execute is given, it returns success or a fault to
\* the caller; it never panics.
C4_ExecuteAlwaysReturns == outcome \in {"None", "Ok", "Err"}

\* C5: the operands of a successfully decoded instruction are the word's
\* fields: x = bits 11..8, y = bits 7..4, n = bits 3..0, nnn = the low 12 bits,
\* kk = the low 8 bits.
C5_OperandsAreTheFields ==
    decoded.op \in OpCode =>
        /\ ("x" \in DOMAIN decoded => decoded.x = FieldX(word))
        /\ ("y" \in DOMAIN decoded => decoded.y = FieldY(word))
        /\ ("nibble" \in DOMAIN decoded => decoded.nibble = FieldN(word))
        /\ ("nnn" \in DOMAIN decoded => decoded.nnn = FieldNNN(word))
        /\ ("kk" \in DOMAIN decoded => decoded.kk = FieldKK(word))

\* C6: a word of group 0x8, 0xE or 0xF whose secondary discriminator is a
\* recognized one decodes to the instruction that discriminator selects.
C6_KnownDiscriminatorDecodes ==
    decoded.op # "None" =>
        /\ (TopNibble(word) = 8 /\ FieldN(word) \in Known8 =>
                decoded.op = Variant8(FieldN(word)))
        /\ (TopNibble(word) = 14 /\ FieldKK(word) \in KnownE =>
                decoded.op = VariantE(FieldKK(word)))
        /\ (TopNibble(word) = 15 /\ FieldKK(word) \in KnownF =>
                decoded.op = VariantF(FieldKK(word)))

\* C7: a word of group 0x8, 0xE or 0xF whose secondary discriminator is not a
\* recognized one yields a decode error.
C7_UnknownDiscriminatorFaults ==
    decoded.op # "None" =>
        /\ (TopNibble(word) = 8 /\ FieldN(word) \notin Known8 => decoded.op = "Err")
        /\ (TopNibble(word) = 14 /\ FieldKK(word) \notin KnownE => decoded.op = "Err")
        /\ (TopNibble(word) = 15 /\ FieldKK(word) \notin KnownF => decoded.op = "Err")

\* C8: in group 0x0, 0x00E0 decodes to ClearScreen, 0x00EE to Return, and every
\* other word to System carrying the word's low 12 bits.
C8_GroupZero ==
    (decoded.op # "None" /\ TopNibble(word) = 0) =>
        CASE word = 224 -> decoded.op = "ClearScreen"
          [] word = 238 -> decoded.op = "Return"
          [] OTHER -> decoded.op = "System" /\ decoded.nnn = FieldNNN(word)

\* C9: decoding is total: every 16-bit word decodes to one of the 35 variants
\* or to a decode error value; the decoder never aborts.
C9_DecodeIsTotal ==
    decoded.op # "None" => decoded.op \in OpCode \cup {"Err"}

\* C9: the last word, 0xFFFF, has been decoded, to an error value
C9_Witness == word = U16_MAX /\ decoded.op = "Err"

\* C10: SaveRegisters(x) or LoadRegisters(x) executed with I + x > 4095 returns
\* a memory-range fault and leaves memory and registers as they were.
C10_BlockTransferOutOfRangeFaults ==
    (last.op \in {"SaveRegisters", "LoadRegisters"} /\ before.i + last.x > 4095) =>
        (outcome = "Err" /\ vm.memory = before.memory /\ vm.registers = before.registers)

\* C11: when I + x <= 4095, SaveRegisters(x), then registers 0..=x set to zero,
\* then LoadRegisters(x) all succeed and leave registers 0..=x with the values
\* they had before the SaveRegisters.
C11_SaveZeroLoadRoundTrip ==
    /\ (steps = 1 /\ origin.i + last.x <= 4095) => outcome = "Ok"
    /\ steps = 2 => (outcome = "Ok" /\ \A k \in 0..last.x : vm.registers[k] = 0)
    /\ steps = 3 =>
           /\ outcome = "Ok"
           /\ origin.i + last.x <= 4095
           /\ \A k \in 0..last.x : vm.registers[k] = origin.registers[k]

\* C11: all 16 registers, VF non-zero, were saved at I = 4080, zeroed and restored
C11_Witness ==
    /\ steps = 3
    /\ last = LoadRegisters(15)
    /\ origin.i = 4080
    /\ origin.registers[15] # 0
    /\ before.registers[15] = 0
    /\ vm.registers = origin.registers

\* C12: SaveRegisters(x) with I + x <= 4095 succeeds and sets memory[I + k] = V[k]
\* for k in 0..=x, leaving every other byte of memory and everything else in the
\* VM unchanged; LoadRegisters(x) with I + x <= 4095 succeeds and sets
\* V[k] = memory[I + k] for k in 0..=x, leaving registers x+1..15 and everything
\* else in the VM unchanged.
C12_BlockTransferFrame ==
    /\ (last.op = "SaveRegisters" /\ before.i + last.x <= 4095) =>
           /\ outcome = "Ok"
           /\ \A a \in 0..4095 :
                  MemGet(vm.memory, a) =
                      IF a \in before.i..(before.i + last.x)
                      THEN before.registers[a - before.i]
                      ELSE MemGet(before.memory, a)
           /\ [vm EXCEPT !.memory = before.memory] = before
    /\ (last.op = "LoadRegisters" /\ before.i + last.x <= 4095) =>
           /\ outcome = "Ok"
           /\ \A k \in 0..15 :
                  vm.registers[k] =
                      IF k <= last.x THEN MemGet(before.memory, before.i + k)
                      ELSE before.registers[k]
           /\ [vm EXCEPT !.registers = before.registers] = before

\* C12: SaveRegisters(15) at I = 4080 wrote the last 16 bytes of memory
C12_Witness ==
    /\ last = SaveRegisters(15)
    /\ outcome = "Ok"
    /\ before.i = 4080
    /\ MemGet(before.memory, 4095) # before.registers[15]
    /\ MemGet(vm.memory, 4095) = before.registers[15]

\* The operands of the last instruction as they were before it: a = Vx, b = Vy
OperandA == before.registers[last.x]
OperandB == before.registers[last.y]

\* C13: AddRegister(x, y) with x # 0xF succeeds and leaves Vx = (a + b) mod 256
\* and VF = 1 if a + b > 255, else 0, for a = Vx and b = Vy before it.
C13_AddRegister ==
    (last.op = "AddRegister" /\ last.x # 15) =>
        /\ outcome = "Ok"
        /\ vm.registers[last.x] = (OperandA + OperandB) % 256
        /\ vm.registers[15] = IF OperandA + OperandB > 255 THEN 1 ELSE 0

\* C13: V0 = 255 was added VF = 255: V0 = 254 with the carry set
C13_Witness ==
    /\ last = AddRegister(0, 15)
    /\ before.registers[0] = 255
    /\ before.registers[15] = 255
    /\ vm.registers[0] = 254
    /\ vm.registers[15] = 1

\* C14: SubRegister(x, y) with x # 0xF succeeds and leaves Vx = (a - b) mod 256
\* and VF = 1 if a > b, else 0, for a = Vx and b = Vy before it.
C14_SubRegister ==
    (last.op = "SubRegister" /\ last.x # 15) =>
        /\ outcome = "Ok"
        /\ vm.registers[last.x] = (OperandA - OperandB) % 256
        /\ vm.registers[15] = IF OperandA > OperandB THEN 1 ELSE 0

\* C15: SubNotBorrowRegister(x, y) with x # 0xF succeeds and leaves
\* Vx = (b - a) mod 256 and VF = 1 if b > a, else 0, for a = Vx and b = Vy before it.
C15_SubNotBorrowRegister ==
    (last.op = "SubNotBorrowRegister" /\ last.x # 15) =>
        /\ outcome = "Ok"
        /\ vm.registers[last.x] = (OperandB - OperandA) % 256
        /\ vm.registers[15] = IF OperandB > OperandA THEN 1 ELSE 0

\* C16: ShlRegister(x, y) with x # 0xF leaves VF = the most-significant bit of
\* a (1 iff a >= 128) and Vx = (2 * a) mod 256, for a = Vx before it.
C16_ShlRegister ==
    (last.op = "ShlRegister" /\ last.x # 15) =>
        /\ outcome = "Ok"
        /\ vm.registers[15] = IF OperandA >= 128 THEN 1 ELSE 0
        /\ vm.registers[last.x] = (2 * OperandA) % 256

\* C17: ShrRegister(x, y) with x # 0xF succeeds and leaves VF = a mod 2 and
\* Vx = floor(a / 2), for a = Vx before it, whatever Vy holds; no register but
\* Vx and VF changes, nor anything else in the VM.
C17_ShrRegister ==
    (last.op = "ShrRegister" /\ last.x # 15) =>
        /\ outcome = "Ok"
        /\ vm.registers[15] = OperandA % 2
        /\ vm.registers[last.x] = OperandA \div 2
        /\ \A k \in (0..15) \ {last.x, 15} : vm.registers[k] = before.registers[k]
        /\ [vm EXCEPT !.registers = before.registers] = before

\* C17: V0 = 255 was shifted with the co-operand V1 = 2: V0 = 127, VF = 1, V1 = 2
C17_Witness ==
    /\ last = ShrRegister(0, 1)
    /\ before.registers[0] = 255
    /\ before.registers[1] = 2
    /\ vm.registers[0] = 127
    /\ vm.registers[15] = 1
    /\ vm.registers[1] = 2

\* C18: Add(x, kk) with x # 0xF succeeds, also when a + kk > 255, and leaves
\* Vx = (a + kk) mod 256 and VF as it was, for a = Vx before it.
C18_AddImmediate ==
    (last.op = "Add" /\ last.x # 15) =>
        /\ outcome = "Ok"
        /\ vm.registers[last.x] = (OperandA + last.kk) % 256
        /\ vm.registers[15] = before.registers[15]

\* The four conditional skips, and the condition of the last one
Skips == {"SkipEqual", "SkipNotEqual", "SkipEqualRegister", "SkipNotEqualRegister"}

SkipFires ==
    CASE last.op = "SkipEqual" -> OperandA = last.kk
      [] last.op = "SkipNotEqual" -> OperandA # last.kk
      [] last.op = "SkipEqualRegister" -> OperandA = OperandB
      [] last.op = "SkipNotEqualRegister" -> OperandA # OperandB

C20_LoadKeyAwaitsKey ==
    last.op = "LoadKey" => (outcome = "Ok" /\ vm.pc = before.pc)

\* A step of the VM that executes no instruction and takes one off each
\* non-zero timer
TimersTick ==
    /\ steps' = steps
    /\ Next
    /\ vm'.dt = (IF vm.dt > 0 THEN vm.dt - 1 ELSE 0)
    /\ vm'.st = (IF vm.st > 0 THEN vm.st - 1 ELSE 0)

\* C21: the VM has an operation apart from instruction execution, tick_timers,
\* that takes exactly 1 off each non-zero timer and leaves a timer at 0 at 0:
\* a VM holding a non-zero timer can take that step.
C21_TickTimersDecrements ==
    (outcome = "Ok" /\ (vm.dt > 0 \/ vm.st > 0)) => ENABLED TimersTick

\* C22: over any sequence of execute calls the delay timer changes only when
\* SetDelayTimer(x) is executed, and is then Vx; the sound timer changes only
\* when SetSoundTimer(x) is executed, and is then Vx; no instruction takes
\* anything off a timer; LoadDelayTimer(x) sets Vx to the delay timer and
\* leaves both timers as they were.
C22_TimersChangeOnlyWhenSet ==
    /\ vm.dt # before.dt => last.op = "SetDelayTimer"
    /\ vm.st # before.st => last.op = "SetSoundTimer"
    /\ last.op = "SetDelayTimer" =>
           (outcome = "Ok" /\ vm.dt = before.registers[last.x] /\ vm.st = before.st)
    /\ last.op = "SetSoundTimer" =>
           (outcome = "Ok" /\ vm.st = before.registers[last.x] /\ vm.dt = before.dt)
    /\ last.op = "LoadDelayTimer" =>
           /\ outcome = "Ok"
           /\ vm.registers[last.x] = before.dt
           /\ vm.dt = before.dt
           /\ vm.st = before.st

\* C22: with dt = 255 set by the program, LoadDelayTimer(VF) read 255 into VF
\* and left both timers
C22_Witness ==
    /\ last = LoadDelayTimer(15)
    /\ before.dt = 255
    /\ before.registers[15] = 0
    /\ vm.registers[15] = 255
    /\ vm.dt = 255
    /\ vm.st = before.st

\* C23: in the initial state of a newly created VM the program counter is the
\* program's entry offset, 0x200, and the stack is empty.
C23_NewVmStartsAtEntry ==
    steps = 0 => (vm.pc = 512 /\ vm.sp = 0)

\* C24: JumpV0(nnn), for every 12-bit nnn and every V0, succeeds and sets pc to
\* nnn + V0 truncated to the 12-bit address space, so pc <= 0xFFF afterwards;
\* nothing but pc changes.
C24_JumpV0StaysInAddressSpace ==
    (last.op = "JumpV0" /\ last.nnn <= 4095) =>
        /\ outcome = "Ok"
        /\ vm.pc = (last.nnn + before.registers[0]) % 4096
        /\ vm.pc <= 4095
        /\ [vm EXCEPT !.pc = before.pc] = before

\* C25: execute(System(nnn)) returns success for every nnn in every state and
\* leaves the whole VM (memory, registers, I, pc, sp, stack, timers) as it was.
C25_SystemIsNoOp ==
    last.op = "System" => (outcome = "Ok" /\ vm = before)

\* C25: System(0xFFF) was executed on a VM a program had been running on
\* (pc = 0x200, VF = 255) and left it
C25_Witness ==
    /\ last = System(4095)
    /\ outcome = "Ok"
    /\ before.pc = 512
    /\ before.registers[15] = 255
    /\ vm.pc = 512
    /\ vm.registers[15] = 255

\* C26: LoadBCD(x) with I + 2 <= 4095, for every v = Vx, succeeds and leaves
\* memory[I] = v div 100, memory[I+1] = (v div 10) mod 10, memory[I+2] = v mod 10,
\* with the registers and I unchanged.
C26_LoadBcdStoresDigits ==
    (last.op = "LoadBCD" /\ before.i + 2 <= 4095) =>
        /\ outcome = "Ok"
        /\ MemGet(vm.memory, before.i) = before.registers[last.x] \div 100
        /\ MemGet(vm.memory, before.i + 1) = (before.registers[last.x] \div 10) % 10
        /\ MemGet(vm.memory, before.i + 2) = before.registers[last.x] % 10
        /\ vm.registers = before.registers
        /\ vm.i = before.i

C28_NestedCallsReturnLifo ==
    [][/\ (last'.op = "Call" /\ Len(frames) < STACK_LENGTH) => outcome' = "Ok"
       /\ last'.op = "Return" =>
              /\ outcome' = "Ok"
              /\ vm'.pc = frames[Len(frames)]
              /\ Len(frames) = 1 => vm'.sp = origin.sp]_vars

\* C29: a word of top nibble 5 or 9 decodes, to SkipEqualRegister resp.
\* SkipNotEqualRegister, if and only if its low nibble is 0; every 5xyN and
\* 9xyN with N in 1..15 is a decode error.
C29_LowNibbleMustBeZero ==
    (decoded.op # "None" /\ TopNibble(word) \in {5, 9}) =>
        IF FieldN(word) = 0
        THEN decoded.op = (IF TopNibble(word) = 5 THEN "SkipEqualRegister"
                                                  ELSE "SkipNotEqualRegister")
        ELSE decoded.op = "Err"

====
